---- MODULE Spec2Model ----
(***************************************************************************)
(* A model of ace_hunter/splunk.py: the SplunkQueryObject query lifecycle  *)
(* (authenticate, execute_query, poll is_job_completed, download), the    *)
(* query-string construction of query_with_time / query_with_index_time,  *)
(* and the json() materialization of the downloaded payload.              *)
(*                                                                         *)
(* Python strings are sequences of one-character strings, so that lstrip, *)
(* lower, startswith, str.format and re.sub are computed character by     *)
(* character.                                                             *)
(***************************************************************************)
EXTENDS Integers, Sequences, FiniteSets, TLC

VARIABLES
    session_key,        \* self.session_key
    search_id,          \* self.search_id
    search_results,     \* self.search_results
    query_start_time,   \* self.query_start_time
    query_end_time,     \* self.query_end_time
    query_cancelled,    \* self.query_cancelled
    pc,                 \* where the thread running query() stands
    now,                \* the clock read by datetime.datetime.now()
    timeout_date,       \* query()'s local timeout_date
    query,              \* query()'s / execute_query()'s local query string
    submitted,          \* the "search" field of the last job-creation POST
    result,             \* what the last query* call returned to its caller
    exit_line,          \* the source line at which the last query* call left
    download_ret,       \* what download_search_results returned in this call
    trace,              \* the requests of the current call, with cancel() marks
    responses,          \* the last response to each kind of request of the current call
    cancelled_at,       \* where query() stood when cancel() wrote the flag
    arg,                \* the arguments of the current query* call
    results_at_entry,   \* search_results when the current call was entered
    stored,             \* whether a download on this session got a 200 with a JSON body
    calls,              \* number of query* calls made on this session
    json_out,           \* what the last json() call returned
    timestamp,          \* the last extract_event_timestamp call and its outcome
    cancelled_on_entry  \* query_cancelled when the current call was entered

vars == <<session_key, search_id, search_results, query_start_time, query_end_time,
          query_cancelled, pc, now, timeout_date, query, submitted, result,
          exit_line, download_ret, trace, responses, cancelled_at, arg,
          results_at_entry, stored, calls, json_out, timestamp,
          cancelled_on_entry>>

-----------------------------------------------------------------------------
(* Bounds of the model.                                                    *)

MaxCalls == 2
MaxClock == 3
QueryTimeout == 1
MaxLead == 2
MaxFields == 2
MaxRows == 2

-----------------------------------------------------------------------------
(* Python values.                                                          *)

None == [kind |-> "None"]
Str(v) == [kind |-> "str", val |-> v]
At(t) == [kind |-> "datetime", t |-> t]

-----------------------------------------------------------------------------
(* Strings.                                                                *)

Str_search == <<"s", "e", "a", "r", "c", "h">>
Str_search_sp == Str_search \o <<" ">>
Str_latest == <<"l", "a", "t", "e", "s", "t", "=">>
Str_earliest == <<"e", "a", "r", "l", "i", "e", "s", "t", "=">>
Str_index == <<"_", "i", "n", "d", "e", "x", "_">>

Whitespace == {" ", "\t"}

UpperOf == [c \in {"s", "e", "a", "r", "c", "h"} |->
              CASE c = "s" -> "S" [] c = "e" -> "E" [] c = "a" -> "A"
                [] c = "r" -> "R" [] c = "c" -> "C" [] c = "h" -> "H"]

\* str.lower() of one character
LowerChar(c) ==
    IF \E l \in DOMAIN UpperOf : UpperOf[l] = c
    THEN CHOOSE l \in DOMAIN UpperOf : UpperOf[l] = c
    ELSE c

lower(s) == [i \in 1..Len(s) |-> LowerChar(s[i])]

\* number of leading whitespace characters of s
RECURSIVE LeadingSpace(_)
LeadingSpace(s) ==
    IF s # <<>> /\ Head(s) \in Whitespace THEN 1 + LeadingSpace(Tail(s)) ELSE 0

lstrip(s) == SubSeq(s, LeadingSpace(s) + 1, Len(s))

startswith(s, p) == Len(s) >= Len(p) /\ SubSeq(s, 1, Len(p)) = p

\* "search {0}".format(query)
FormatSearch(q) == Str_search_sp \o q

\* the test  not query.lstrip().lower().startswith("search")
MissingSearch(q) == ~startswith(lower(lstrip(q)), Str_search)

\* variant: the prefix is added without the test
EnsureSearchAlways(q) == FormatSearch(q)
\* the three-line block "searches need to start with search"
EnsureSearch(q) == IF MissingSearch(q) THEN FormatSearch(q) ELSE q

\* where the match of  ^\s*search  (re.I) ends in s, 0 when there is no match
MatchEnd(s) ==
    LET n == LeadingSpace(s)
    IN  IF startswith(lower(SubSeq(s, n + 1, Len(s))), Str_search) THEN n + 6 ELSE 0

\* re.sub(r"^\s*search", repl, s, 1, re.I)
SubSearch(repl, s) ==
    IF MatchEnd(s) = 0 THEN s ELSE repl \o SubSeq(s, MatchEnd(s) + 1, Len(s))

Digits == <<"0", "1", "2", "3", "4", "5", "6", "7", "8", "9">>
Digit(n) == Digits[n + 1]
Pad2(n) == <<Digit((n \div 10) % 10), Digit(n % 10)>>
Pad4(n) == <<Digit((n \div 1000) % 10), Digit((n \div 100) % 10)>> \o Pad2(n % 100)

\* datetime.strftime("%m/%d/%Y:%H:%M:%S")
strftime(t) ==
    Pad2(t.month) \o <<"/">> \o Pad2(t.day) \o <<"/">> \o Pad4(t.year) \o <<":">>
        \o Pad2(t.hour) \o <<":">> \o Pad2(t.minute) \o <<":">> \o Pad2(t.second)

-----------------------------------------------------------------------------
(* Time-bounded query construction.                                        *)

DateTime(y, mo, d, h, mi, s) ==
    [kind |-> "datetime", year |-> y, month |-> mo, day |-> d,
     hour |-> h, minute |-> mi, second |-> s]

\* variant: the two substitutions in the other order
InjectEarliestFirst(q, time_start, time_end, prefix) ==
    LET q1 == EnsureSearch(q)
        q2 == IF time_start # None
              THEN SubSearch(Str_search_sp \o prefix \o Str_earliest \o strftime(time_start), q1)
              ELSE q1
    IN  IF time_end # None
        THEN SubSearch(Str_search_sp \o prefix \o Str_latest \o strftime(time_end), q2)
        ELSE q2
\* the body of query_with_time / query_with_index_time between the asserts and
\* the call of self.query: prefix is "" or "_index_"
InjectTimes(q, time_start, time_end, prefix) ==
    LET q1 == EnsureSearch(q)
        q2 == IF time_end # None
              THEN SubSearch(Str_search_sp \o prefix \o Str_latest \o strftime(time_end), q1)
              ELSE q1
    IN  IF time_start # None
        THEN SubSearch(Str_search_sp \o prefix \o Str_earliest \o strftime(time_start), q2)
        ELSE q2

-----------------------------------------------------------------------------
(* create_timedelta and datetime arithmetic.                               *)

MaxParts == 4

\* the position of the first ":" of s, 0 when it has none
FirstColon(s) ==
    IF \E i \in 1..Len(s) : s[i] = ":"
    THEN CHOOSE i \in 1..Len(s) : s[i] = ":" /\ \A k \in 1..(i - 1) : s[k] # ":"
    ELSE 0

\* str.split(":")
RECURSIVE split(_)
split(s) ==
    IF FirstColon(s) = 0 THEN <<s>>
    ELSE <<SubSeq(s, 1, FirstColon(s) - 1)>> \o split(SubSeq(s, FirstColon(s) + 1, Len(s)))

IsDigit(c) == \E d \in 1..10 : Digits[d] = c
DigitValue(c) == (CHOOSE d \in 1..10 : Digits[d] = c) - 1
RECURSIVE DigitsValue(_)
DigitsValue(s) ==
    IF s = <<>> THEN 0
    ELSE DigitsValue(SubSeq(s, 1, Len(s) - 1)) * 10 + DigitValue(s[Len(s)])

\* int(s) does not raise ValueError: an optional sign and at least one digit
IntValid(s) ==
    LET body == IF s # <<>> /\ s[1] \in {"-", "+"} THEN Tail(s) ELSE s
    IN  body # <<>> /\ \A i \in 1..Len(body) : IsDigit(body[i])
\* int(s)
int(s) ==
    IF s[1] = "-" THEN 0 - DigitsValue(Tail(s))
    ELSE IF s[1] = "+" THEN DigitsValue(Tail(s))
    ELSE DigitsValue(s)

\* datetime.timedelta(...) of the given total of seconds, normalised
Timedelta(total) == [kind |-> "timedelta", days |-> total \div 86400, seconds |-> total % 86400]
TotalSeconds(td) == td.days * 86400 + td.seconds

\* variant: the components are read left to right, seconds first
create_timedelta_left_to_right(timespec) ==
    LET duration == split(timespec)
        n == Len(duration)
    IN  IF \E k \in 1..(IF n < 4 THEN n ELSE 4) : ~IntValid(duration[k])
        THEN [kind |-> "raise"]
        ELSE Timedelta(int(duration[1])
                       + (IF n > 1 THEN int(duration[2]) ELSE 0) * 60
                       + (IF n > 2 THEN int(duration[3]) ELSE 0) * 3600
                       + (IF n > 3 THEN int(duration[4]) ELSE 0) * 86400)
\* create_timedelta(timespec): a timedelta, or ValueError raised by int()
create_timedelta(timespec) ==
    LET duration == split(timespec)
        n == Len(duration)
        \* duration[-k]
        part(k) == duration[n + 1 - k]
    IN  IF \E k \in 1..(IF n < 4 THEN n ELSE 4) : ~IntValid(part(k))
        THEN [kind |-> "raise"]
        ELSE LET seconds == int(part(1))
                 minutes == IF n > 1 THEN int(part(2)) ELSE 0
                 hours == IF n > 2 THEN int(part(3)) ELSE 0
                 days == IF n > 3 THEN int(part(4)) ELSE 0
             IN  Timedelta(days * 86400 + seconds + minutes * 60 + hours * 3600)

IsLeap(y) == y % 4 = 0 /\ (y % 100 # 0 \/ y % 400 = 0)
DaysInMonth(y, m) ==
    IF m = 2 THEN (IF IsLeap(y) THEN 29 ELSE 28)
    ELSE IF m \in {4, 6, 9, 11} THEN 30 ELSE 31
RECURSIVE DaysBeforeMonth(_, _)
DaysBeforeMonth(y, m) ==
    IF m = 1 THEN 0 ELSE DaysBeforeMonth(y, m - 1) + DaysInMonth(y, m - 1)
DaysBeforeYear(y) ==
    (y - 1) * 365 + ((y - 1) \div 4) - ((y - 1) \div 100) + ((y - 1) \div 400)

\* date.toordinal(): day 1 of year 1 is 1
Ordinal(t) == DaysBeforeYear(t.year) + DaysBeforeMonth(t.year, t.month) + t.day
SecondOfDay(t) == t.hour * 3600 + t.minute * 60 + t.second
\* the datetime of second r of the day of ordinal o
FromOrdinal(o, r) ==
    LET y == CHOOSE y \in (((o - 1) \div 366) + 1)..(((o - 1) \div 365) + 1) :
                 DaysBeforeYear(y) < o /\ o <= DaysBeforeYear(y + 1)
        doy == o - DaysBeforeYear(y)
        m == CHOOSE m \in 1..12 :
                 DaysBeforeMonth(y, m) < doy /\ doy <= DaysBeforeMonth(y, m) + DaysInMonth(y, m)
    IN  DateTime(y, m, doy - DaysBeforeMonth(y, m), r \div 3600, (r % 3600) \div 60, r % 60)

\* datetime + timedelta: the days and the seconds are added apart, then normalised
PlusDelta(t, td) ==
    LET r == SecondOfDay(t) + td.seconds
    IN  FromOrdinal(Ordinal(t) + td.days + (r \div 86400), r % 86400)
\* -timedelta
Negated(td) == Timedelta(0 - TotalSeconds(td))
\* datetime - timedelta
MinusDelta(t, td) == PlusDelta(t, Negated(td))

\* the instant datetime.datetime.now() returns when the clock reads n
Epoch == DateTime(2024, 1, 1, 0, 0, 0)
NowDateTime(n) == PlusDelta(Epoch, Timedelta(n))

\* the configuration: __init__ defaults, with the query timeout of the model
relative_duration_before == <<"0", "0", ":", "0", "0", ":", "1", "5">>
relative_duration_after == <<"0", "0", ":", "0", "0", ":", "0", "5">>
query_timeout == <<"0", "0", ":", "0", "0", ":">> \o Pad2(QueryTimeout)

-----------------------------------------------------------------------------
(* HTTP responses.  A response is a transport error (requests raises) or an  *)
(* HTTP response with a status code and a body.                              *)

TransportError == [kind |-> "error"]
Http(status, body) == [kind |-> "http", status |-> status, body |-> body]

\* an XML body: whether ET.fromstring parses it, and the element looked up by
\* root.find: Absent, or its text (None for an empty element)
Absent == [kind |-> "absent"]
Xml(wellformed, elem) == [wellformed |-> wellformed, elem |-> elem]

\* a JSON value as json.loads returns it
Dict(keys, fields, rows) == [kind |-> "dict", keys |-> keys, fields |-> fields, rows |-> rows]
OtherJson == [kind |-> "other"]
\* a response body for json.loads: not JSON at all, or the text of a value
NotJson == [json |-> FALSE, value |-> None]
JsonText(v) == [json |-> TRUE, value |-> v]

-----------------------------------------------------------------------------
(* What each stage returns for a response.                                 *)

\* variant: a 200 response counts as a login whatever its body
authenticate_ignores_missing_key(r) == r.kind = "http" /\ r.status = 200
\* authenticate(): lines 268-281
authenticate_ret(r) ==
    r.kind = "http" /\ r.status = 200 /\ r.body.wellformed /\ r.body.elem # Absent

\* variant: the status code is not compared with 201
execute_query_any_status(r) ==
    r.kind = "http" /\ r.body.wellformed /\ r.body.elem # Absent
\* execute_query(): lines 308-322
execute_query_ret(r) ==
    r.kind = "http" /\ r.status = 201 /\ r.body.wellformed /\ r.body.elem # Absent

\* is_job_completed(): lines 338-365; "None", "True" or "False"
is_job_completed_ret(r) ==
    IF r.kind # "http" \/ r.status # 200 THEN "None"
    ELSE IF r.body \notin {"isDone0", "isDone1"} THEN "False"
    ELSE IF r.body = "isDone1" THEN "True"
    ELSE "False"

\* len(self.search_results["rows"]) raises
RowsUnusable(v) == v.kind # "dict" \/ "rows" \notin v.keys

\* download_search_results(): lines 385-406; "None", "True" or "False"
download_search_results_ret(r) ==
    IF r.kind # "http" THEN "None"
    ELSE IF r.status # 200 THEN "False"
    ELSE IF ~r.body.json THEN "False"
    ELSE IF RowsUnusable(r.body.value) THEN "False"
    ELSE "True"

\* variant: the body is parsed and stored before the status code is looked at
download_assigns_any_status(r) == r.kind = "http" /\ r.body.json
\* whether line 394 assigns self.search_results
download_assigns(r) == r.kind = "http" /\ r.status = 200 /\ r.body.json

-----------------------------------------------------------------------------
(* json(): lines 408-420.                                                  *)

Raise == [kind |-> "raise"]
NotCalled == [kind |-> "NotCalled"]
List(items) == [kind |-> "list", items |-> items]
EmptyObj == [x \in {} |-> ""]

\* obj[key] = value
SetItem(obj, key, value) ==
    [x \in (DOMAIN obj) \cup {key} |-> IF x = key THEN value ELSE obj[x]]

\* the inner loop  for index in range(0, len(fields)), from index i (1-based)
RECURSIVE RowObj(_, _, _, _)
RowObj(obj, fields, row, i) ==
    IF i > Len(fields) THEN obj
    ELSE RowObj(SetItem(obj, fields[i], row[i]), fields, row, i + 1)

\* the inner loop raises: no "fields" key, or a row shorter than fields
RowRaises(sr, row) == "fields" \notin sr.keys \/ Len(row) < Len(sr.fields)

\* variant: a repeated field name keeps its first value
json_first_wins(sr) ==
    IF sr = None THEN None
    ELSE IF RowsUnusable(sr) THEN Raise
    ELSE IF \E i \in 1..Len(sr.rows) : RowRaises(sr, sr.rows[i]) THEN Raise
    ELSE List([i \in 1..Len(sr.rows) |->
                 [f \in {sr.fields[j] : j \in 1..Len(sr.fields)} |->
                    sr.rows[i][CHOOSE j \in 1..Len(sr.fields) :
                        /\ sr.fields[j] = f
                        /\ \A k \in 1..(j - 1) : sr.fields[k] # f]]])
\* json(): the value returned for self.search_results = sr
json(sr) ==
    IF sr = None THEN None
    ELSE IF RowsUnusable(sr) THEN Raise
    ELSE IF \E i \in 1..Len(sr.rows) : RowRaises(sr, sr.rows[i]) THEN Raise
    ELSE List([i \in 1..Len(sr.rows) |-> RowObj(EmptyObj, sr.fields, sr.rows[i], 1)])

-----------------------------------------------------------------------------
(* Inputs.                                                                 *)

\* the token / job id the service issues to the n-th call on this session
Token(n) == Str(<<"token", n>>)
JobId(n) == Str(<<"sid", n>>)

AuthBodies(n) == {Xml(FALSE, Absent), Xml(TRUE, Absent), Xml(TRUE, None), Xml(TRUE, Token(n))}
AuthResponses(n) ==
    {TransportError, Http(401, Xml(TRUE, Absent))} \cup {Http(200, b) : b \in AuthBodies(n)}

SubmitBodies(n) == {Xml(FALSE, Absent), Xml(TRUE, Absent), Xml(TRUE, None), Xml(TRUE, JobId(n))}
SubmitResponses(n) ==
    {TransportError, Http(400, Xml(TRUE, Absent)), Http(200, Xml(TRUE, JobId(n)))}
        \cup {Http(201, b) : b \in SubmitBodies(n)}

StatusResponses ==
    {TransportError, Http(404, "other")} \cup {Http(200, b) : b \in {"isDone0", "isDone1", "other"}}

\* payloads the service sends while the lifecycle is explored
EmptyPayload == Dict({"fields", "rows"}, <<"a">>, <<>>)
OneRowPayload == Dict({"fields", "rows"}, <<"a">>, << <<"1">> >>)
DownloadBodies ==
    {NotJson, JsonText(None), JsonText(OtherJson), JsonText(Dict({}, <<>>, <<>>)),
     JsonText(EmptyPayload), JsonText(OneRowPayload)}
DownloadResponses ==
    {TransportError, Http(500, JsonText(Dict({}, <<>>, <<>>)))}
        \cup {Http(200, b) : b \in DownloadBodies}

-----------------------------------------------------------------------------
(* The session.                                                            *)

NoResponses == [login |-> None, submit |-> None, status |-> None, download |-> None]

\* __init__: lines 128-139
Init ==
    /\ session_key = None
    /\ search_id = None
    /\ search_results = None
    /\ query_start_time = None
    /\ query_end_time = None
    /\ query_cancelled = FALSE
    /\ pc = "idle"
    /\ now = 0
    /\ timeout_date = 0
    /\ query = <<>>
    /\ submitted = <<>>
    /\ result = "None"
    /\ exit_line = 0
    /\ download_ret = "NotCalled"
    /\ trace = <<>>
    /\ responses = NoResponses
    /\ cancelled_at = "never"
    /\ arg = [fn |-> "none", query |-> <<>>, time_start |-> None, time_end |-> None]
    /\ results_at_entry = None
    /\ stored = FALSE
    /\ calls = 0
    /\ json_out = NotCalled
    /\ timestamp = NotCalled
    /\ cancelled_on_entry = FALSE

\* the request req is sent and gets response r
Request(req, r) ==
    /\ trace' = Append(trace, req)
    /\ responses' = [responses EXCEPT ![req] = r]

\* query() returns val at the given source line
Return(val, line) ==
    /\ pc' = "idle"
    /\ result' = val
    /\ exit_line' = line

\* variant: a new call clears the cancellation flag
EnterQueryClearsFlag(q) ==
    /\ pc = "idle"
    /\ calls < MaxCalls
    /\ calls' = calls + 1
    /\ query' = q
    /\ timeout_date' = now + TotalSeconds(create_timedelta(query_timeout))
    /\ pc' = "authenticate"
    /\ result' = "Running"
    /\ exit_line' = 0
    /\ trace' = <<>>
    /\ responses' = NoResponses
    /\ json_out' = NotCalled
    /\ submitted' = <<>>
    /\ download_ret' = "NotCalled"
    /\ results_at_entry' = search_results
    /\ cancelled_on_entry' = query_cancelled
    /\ query_cancelled' = FALSE
    /\ UNCHANGED <<timestamp, session_key, search_id, search_results, query_start_time,
                   query_end_time, cancelled_at, now, stored>>
\* query(), lines 218-220: the frame of a new call
EnterQuery(q) ==
    /\ pc = "idle"
    /\ calls < MaxCalls
    /\ calls' = calls + 1
    /\ query' = q
    /\ timeout_date' = now + TotalSeconds(create_timedelta(query_timeout))
    /\ pc' = "authenticate"
    /\ result' = "Running"
    /\ exit_line' = 0
    /\ trace' = <<>>
    /\ responses' = NoResponses
    /\ json_out' = NotCalled
    /\ submitted' = <<>>
    /\ download_ret' = "NotCalled"
    /\ results_at_entry' = search_results
    /\ cancelled_on_entry' = query_cancelled
    /\ UNCHANGED <<timestamp, session_key, search_id, search_results, query_start_time,
                   query_end_time, query_cancelled, cancelled_at, now, stored>>

\* query(query) called directly
Query(q) ==
    /\ arg' = [fn |-> "query", query |-> q, time_start |-> None, time_end |-> None]
    /\ EnterQuery(q)

\* an exception raised at the given line before query() is entered reaches the caller
Raises(exc, line) ==
    /\ pc = "idle"
    /\ calls < MaxCalls
    /\ calls' = calls + 1
    /\ result' = exc
    /\ exit_line' = line
    /\ trace' = <<>>
    /\ responses' = NoResponses
    /\ submitted' = <<>>
    /\ download_ret' = "NotCalled"
    /\ results_at_entry' = search_results
    /\ cancelled_on_entry' = query_cancelled
    /\ json_out' = NotCalled
    /\ UNCHANGED <<timestamp, session_key, search_id, search_results, query_start_time,
                   query_end_time, query_cancelled, cancelled_at, pc, now, timeout_date, query,
                   stored>>

\* an assert isinstance(...) fails at the given line: AssertionError reaches the caller
AssertFails(line) == Raises("AssertionError", line)

\* query_with_time, lines 169-191
QueryWithTime(q, time_start, time_end) ==
    /\ arg' = [fn |-> "query_with_time", query |-> q,
               time_start |-> time_start, time_end |-> time_end]
    /\ IF time_start = None THEN AssertFails(171)
       ELSE IF time_end = None THEN AssertFails(172)
       ELSE EnterQuery(InjectTimes(q, time_start, time_end, <<>>))

\* query_with_index_time, lines 193-215
QueryWithIndexTime(q, time_start, time_end) ==
    /\ arg' = [fn |-> "query_with_index_time", query |-> q,
               time_start |-> time_start, time_end |-> time_end]
    /\ IF time_start = None THEN AssertFails(195)
       ELSE IF time_end = None THEN AssertFails(196)
       ELSE EnterQuery(InjectTimes(q, time_start, time_end, Str_index))

\* query_relative, lines 148-167; event_time is None or a datetime, the durations None or str
QueryRelative(q, event_time, before, after) ==
    LET anchor == IF event_time = None THEN NowDateTime(now) ELSE event_time
        b == IF before = None THEN relative_duration_before ELSE before.val
        a == IF after = None THEN relative_duration_after ELSE after.val
        time_start == MinusDelta(anchor, create_timedelta(b))
        time_end == PlusDelta(anchor, create_timedelta(a))
    IN  IF create_timedelta(b).kind = "raise"
        THEN /\ arg' = [fn |-> "query_relative", query |-> q, time_start |-> None,
                        time_end |-> None, event_time |-> event_time, anchor |-> anchor,
                        before |-> before, after |-> after]
             /\ Raises("ValueError", 165)
        ELSE IF create_timedelta(a).kind = "raise"
        THEN /\ arg' = [fn |-> "query_relative", query |-> q, time_start |-> time_start,
                        time_end |-> None, event_time |-> event_time, anchor |-> anchor,
                        before |-> before, after |-> after]
             /\ Raises("ValueError", 166)
        ELSE /\ arg' = [fn |-> "query_relative", query |-> q, time_start |-> time_start,
                        time_end |-> time_end, event_time |-> event_time, anchor |-> anchor,
                        before |-> before, after |-> after]
             /\ EnterQuery(InjectTimes(q, time_start, time_end, <<>>))

\* cancel(), lines 144-146, from any thread at any time
Cancel ==
    /\ ~query_cancelled
    /\ query_cancelled' = TRUE
    /\ cancelled_at' = pc
    /\ trace' = IF pc = "idle" THEN trace ELSE Append(trace, "cancel")
    /\ UNCHANGED <<timestamp, cancelled_on_entry,
                   session_key, search_id, search_results, query_start_time,
                   query_end_time, pc, now, timeout_date, query, submitted, result,
                   exit_line, download_ret, responses, arg, results_at_entry,
                   stored, calls, json_out>>

\* time passes while a call is running
Tick ==
    /\ pc # "idle"
    /\ now < MaxClock
    /\ now' = now + 1
    /\ UNCHANGED <<timestamp, cancelled_on_entry,
                   session_key, search_id, search_results, query_start_time,
                   query_end_time, query_cancelled, cancelled_at, pc, timeout_date, query,
                   submitted, result, exit_line, download_ret, trace, responses, arg,
                   results_at_entry, stored, calls, json_out>>

\* variant: a failed login clears the session key
AuthenticateClearsOnFailure(r) ==
    /\ pc = "authenticate"
    /\ Request("login", r)
    /\ IF authenticate_ret(r)
       THEN /\ session_key' = r.body.elem
            /\ pc' = "execute_query"
            /\ UNCHANGED <<result, exit_line>>
       ELSE /\ Return("False", 224)
            /\ session_key' = None
    /\ UNCHANGED <<timestamp, cancelled_on_entry,
                   search_id, search_results, query_start_time, query_end_time,
                   query_cancelled, cancelled_at, now, timeout_date, query, submitted,
                   download_ret, arg, results_at_entry, stored, calls, json_out>>
\* query() line 223 with authenticate(), lines 256-281
Authenticate(r) ==
    /\ pc = "authenticate"
    /\ Request("login", r)
    /\ IF authenticate_ret(r)
       THEN /\ session_key' = r.body.elem
            /\ pc' = "execute_query"
            /\ UNCHANGED <<result, exit_line>>
       ELSE /\ Return("False", 224)
            /\ UNCHANGED session_key
    /\ UNCHANGED <<timestamp, cancelled_on_entry,
                   search_id, search_results, query_start_time, query_end_time,
                   query_cancelled, cancelled_at, now, timeout_date, query, submitted,
                   download_ret, arg, results_at_entry, stored, calls, json_out>>

\* query() lines 227-230 with execute_query(), lines 283-322
ExecuteQuery(r) ==
    /\ pc = "execute_query"
    /\ query' = EnsureSearch(query)
    /\ submitted' = query'
    /\ Request("submit", r)
    /\ IF execute_query_ret(r)
       THEN /\ search_id' = r.body.elem
            /\ query_start_time' = At(now)
            /\ pc' = "while"
            /\ UNCHANGED <<result, exit_line>>
       ELSE /\ Return("False", 228)
            /\ UNCHANGED <<search_id, query_start_time>>
    /\ UNCHANGED <<timestamp, cancelled_on_entry,
                   session_key, search_results, query_end_time, query_cancelled,
                   cancelled_at, now, timeout_date, download_ret, arg, results_at_entry,
                   stored, calls, json_out>>

\* variant: the loop test does not read the flag
WhileIgnoresFlag ==
    /\ pc = "while"
    /\ pc' = "is_job_completed"
    /\ UNCHANGED <<timestamp, cancelled_on_entry,
                   session_key, search_id, search_results, query_start_time,
                   query_end_time, query_cancelled, cancelled_at, now, timeout_date, query,
                   submitted, result, exit_line, download_ret, trace, responses, arg,
                   results_at_entry, stored, calls, json_out>>
\* query() line 233: the loop test  while not self.query_cancelled
While ==
    /\ pc = "while"
    /\ pc' = IF query_cancelled THEN "if_download" ELSE "is_job_completed"
    /\ UNCHANGED <<timestamp, cancelled_on_entry,
                   session_key, search_id, search_results, query_start_time,
                   query_end_time, query_cancelled, cancelled_at, now, timeout_date, query,
                   submitted, result, exit_line, download_ret, trace, responses, arg,
                   results_at_entry, stored, calls, json_out>>

\* variant: a status check made past the deadline fails the call whatever it reports
IsJobCompletedAfterTimeoutTest(r) ==
    /\ pc = "is_job_completed"
    /\ Request("status", r)
    /\ LET job_completed == IF now > timeout_date THEN "None" ELSE is_job_completed_ret(r)
       IN  CASE job_completed = "None" ->
                    /\ Return("False", 236)
                    /\ UNCHANGED query_end_time
             [] job_completed = "True" ->
                    /\ query_end_time' = At(now)
                    /\ pc' = "if_download"
                    /\ UNCHANGED <<result, exit_line>>
             [] OTHER ->
                    /\ pc' = "if_timeout"
                    /\ UNCHANGED <<query_end_time, result, exit_line>>
    /\ UNCHANGED <<timestamp, cancelled_on_entry,
                   session_key, search_id, search_results, query_start_time,
                   query_cancelled, cancelled_at, now, timeout_date, query, submitted,
                   download_ret, arg, results_at_entry, stored, calls, json_out>>
\* query() lines 234-241 with is_job_completed(), lines 324-365
IsJobCompleted(r) ==
    /\ pc = "is_job_completed"
    /\ Request("status", r)
    /\ LET job_completed == is_job_completed_ret(r)
       IN  CASE job_completed = "None" ->
                    /\ Return("False", 236)
                    /\ UNCHANGED query_end_time
             [] job_completed = "True" ->
                    /\ query_end_time' = At(now)
                    /\ pc' = "if_download"
                    /\ UNCHANGED <<result, exit_line>>
             [] OTHER ->
                    /\ pc' = "if_timeout"
                    /\ UNCHANGED <<query_end_time, result, exit_line>>
    /\ UNCHANGED <<timestamp, cancelled_on_entry,
                   session_key, search_id, search_results, query_start_time,
                   query_cancelled, cancelled_at, now, timeout_date, query, submitted,
                   download_ret, arg, results_at_entry, stored, calls, json_out>>

\* variant: the timeout test never fails the call
IfTimeoutNever ==
    /\ pc = "if_timeout"
    /\ pc' = "sleep"
    /\ UNCHANGED <<timestamp, cancelled_on_entry,
                   session_key, search_id, search_results, query_start_time,
                   query_end_time, query_cancelled, cancelled_at, now, timeout_date,
                   query, submitted, result, exit_line, download_ret, trace,
                   responses, arg, results_at_entry, stored, calls, json_out>>
\* variant: on timeout the loop is left with break
IfTimeoutBreaks ==
    /\ pc = "if_timeout"
    /\ pc' = IF now > timeout_date THEN "if_download" ELSE "sleep"
    /\ UNCHANGED <<timestamp, cancelled_on_entry,
                   session_key, search_id, search_results, query_start_time,
                   query_end_time, query_cancelled, cancelled_at, now, timeout_date,
                   query, submitted, result, exit_line, download_ret, trace,
                   responses, arg, results_at_entry, stored, calls, json_out>>
\* variant: the timeout is measured from query_start_time, the start of polling
IfTimeoutSincePollStart ==
    /\ pc = "if_timeout"
    /\ IF now > query_start_time.t + TotalSeconds(create_timedelta(query_timeout))
       THEN Return("False", 245)
       ELSE pc' = "sleep" /\ UNCHANGED <<result, exit_line>>
    /\ UNCHANGED <<timestamp, cancelled_on_entry,
                   session_key, search_id, search_results, query_start_time,
                   query_end_time, query_cancelled, cancelled_at, now, timeout_date, query,
                   submitted, download_ret, trace, responses, arg, results_at_entry, stored,
                   calls, json_out>>
\* query() lines 243-245: the timeout test
IfTimeout ==
    /\ pc = "if_timeout"
    /\ IF now > timeout_date
       THEN Return("False", 245)
       ELSE pc' = "sleep" /\ UNCHANGED <<result, exit_line>>
    /\ UNCHANGED <<timestamp, cancelled_on_entry,
                   session_key, search_id, search_results, query_start_time,
                   query_end_time, query_cancelled, cancelled_at, now, timeout_date, query,
                   submitted, download_ret, trace, responses, arg, results_at_entry, stored,
                   calls, json_out>>

\* query() line 247: time.sleep(1)
Sleep ==
    /\ pc = "sleep"
    /\ now < MaxClock
    /\ now' = now + 1
    /\ pc' = "while"
    /\ UNCHANGED <<timestamp, cancelled_on_entry,
                   session_key, search_id, search_results, query_start_time,
                   query_end_time, query_cancelled, cancelled_at, timeout_date, query, submitted,
                   result, exit_line, download_ret, trace, responses, arg, results_at_entry,
                   stored, calls, json_out>>

\* variant: the results are downloaded without testing the flag
IfDownloadIgnoresFlag ==
    /\ pc = "if_download"
    /\ pc' = "download_search_results"
    /\ UNCHANGED <<timestamp, cancelled_on_entry,
                   session_key, search_id, search_results, query_start_time,
                   query_end_time, query_cancelled, cancelled_at, now, timeout_date,
                   query, submitted, result, exit_line, download_ret, trace,
                   responses, arg, results_at_entry, stored, calls, json_out>>
\* query() line 250: the test  if not self.query_cancelled
IfDownload ==
    /\ pc = "if_download"
    /\ IF query_cancelled
       THEN Return("True", 254)
       ELSE pc' = "download_search_results" /\ UNCHANGED <<result, exit_line>>
    /\ UNCHANGED <<timestamp, cancelled_on_entry,
                   session_key, search_id, search_results, query_start_time,
                   query_end_time, query_cancelled, cancelled_at, now, timeout_date, query,
                   submitted, download_ret, trace, responses, arg, results_at_entry, stored,
                   calls, json_out>>

\* query() lines 251-254 with download_search_results(), lines 367-406
DownloadSearchResults(r) ==
    /\ pc = "download_search_results"
    /\ Request("download", r)
    /\ download_ret' = download_search_results_ret(r)
    /\ search_results' = IF download_assigns(r) THEN r.body.value ELSE search_results
    /\ stored' = (stored \/ (r.kind = "http" /\ r.status = 200 /\ r.body.json))
    /\ Return("True", 254)
    /\ UNCHANGED <<timestamp, cancelled_on_entry,
                   session_key, search_id, query_start_time, query_end_time,
                   query_cancelled, cancelled_at, now, timeout_date, query, submitted, arg,
                   results_at_entry, calls, json_out>>

\* json() called between queries
Json ==
    /\ pc = "idle"
    /\ json_out' = json(search_results)
    /\ UNCHANGED <<timestamp, cancelled_on_entry,
                   session_key, search_id, search_results, query_start_time,
                   query_end_time, query_cancelled, cancelled_at, pc, now, timeout_date, query,
                   submitted, result, exit_line, download_ret, trace, responses, arg,
                   results_at_entry, stored, calls>>

\* the queries the lifecycle is explored with
LifecycleQueries == {<<"x">>}

Next ==
    \/ \E q \in LifecycleQueries : Query(q)
    \/ Cancel
    \/ Tick
    \/ \E r \in AuthResponses(calls) : Authenticate(r)
    \/ \E r \in SubmitResponses(calls) : ExecuteQuery(r)
    \/ While
    \/ \E r \in StatusResponses : IsJobCompleted(r)
    \/ IfTimeout
    \/ Sleep
    \/ IfDownload
    \/ \E r \in DownloadResponses : DownloadSearchResults(r)
    \/ Json

Spec == Init /\ [][Next]_vars

\* The thread running query() keeps running: each request returns (within the
\* network timeout) and time.sleep(1) returns with the clock advanced.  A call
\* is entered only while the clock of the model has room for its deadline, the
\* time that passes during a sleep is the sleep's own, and the results request
\* either fails in transport or is answered with a payload.
LiveDownloadResponses == {TransportError, Http(200, JsonText(OneRowPayload))}
QueryStep ==
    \/ \E r \in AuthResponses(calls) : Authenticate(r)
    \/ \E r \in SubmitResponses(calls) : ExecuteQuery(r)
    \/ While
    \/ \E r \in StatusResponses : IsJobCompleted(r)
    \/ IfTimeout
    \/ Sleep
    \/ IfDownload
    \/ \E r \in LiveDownloadResponses : DownloadSearchResults(r)

NextLive ==
    \/ \E q \in LifecycleQueries :
            now + TotalSeconds(create_timedelta(query_timeout)) < MaxClock /\ Query(q)
    \/ Cancel
    \/ pc # "sleep" /\ Tick
    \/ QueryStep

SpecLive == Init /\ [][NextLive]_vars /\ WF_vars(QueryStep)

-----------------------------------------------------------------------------
(* Query construction explored on its own: the first call on a fresh        *)
(* session, with every entry point, up to the job-creation POST.            *)

RECURSIVE SeqsUpTo(_, _)
\* the sequences over S of length at most n
SeqsUpTo(S, n) ==
    IF n = 0 THEN {<<>>}
    ELSE LET shorter == SeqsUpTo(S, n - 1)
         IN  shorter \cup {Append(t, x) : t \in shorter, x \in S}

BuildLeads == SeqsUpTo(Whitespace, MaxLead)
BuildHeads ==
    {Str_search, <<"S", "E", "A", "R", "C", "H">>, <<"S", "e", "a", "r", "c", "h">>,
     <<"s", "e", "a", "r">>, <<"x">>, <<>>}
BuildTails ==
    {<<>>, <<" ", "x">>, <<"i", "n", "g">>, <<" ">> \o Str_search \o <<" ", "x">>}
BuildQueries == {l \o h \o t : l \in BuildLeads, h \in BuildHeads, t \in BuildTails}
BuildTimes ==
    {DateTime(2024, 1, 1, 0, 0, 0), DateTime(2024, 1, 1, 0, 0, 10),
     DateTime(2023, 12, 31, 23, 59, 58)}

NextBuild ==
    \/ \E q \in BuildQueries : calls = 0 /\ Query(q)
    \/ \E q \in BuildQueries, ts, te \in BuildTimes \cup {None} :
            calls = 0 /\ QueryWithTime(q, ts, te)
    \/ \E q \in BuildQueries, ts, te \in BuildTimes \cup {None} :
            calls = 0 /\ QueryWithIndexTime(q, ts, te)
    \/ Authenticate(Http(200, Xml(TRUE, Token(calls))))
    \/ \E r \in {Http(201, Xml(TRUE, JobId(calls))), Http(400, Xml(TRUE, Absent))} :
            ExecuteQuery(r)

SpecBuild == Init /\ [][NextBuild]_vars

-----------------------------------------------------------------------------
(* Relative time windows: query_relative over duration strings.            *)

ComponentValues == {0, 1, 10}

RECURSIVE DigitsOf(_)
\* the decimal digits of a natural number
DigitsOf(n) == IF n < 10 THEN <<Digits[n + 1]>> ELSE DigitsOf(n \div 10) \o <<Digits[(n % 10) + 1]>>
\* the text of an integer, padded to two digits or not
IntText(n, pad) ==
    LET m == IF n < 0 THEN 0 - n ELSE n
        d == IF pad /\ m < 10 THEN <<"0">> \o DigitsOf(m) ELSE DigitsOf(m)
    IN  IF n < 0 THEN <<"-">> \o d ELSE d
RECURSIVE Join(_, _)
\* the texts of the components, joined by ":"
Join(c, pad) ==
    IF Len(c) = 1 THEN IntText(c[1], pad)
    ELSE Join(SubSeq(c, 1, Len(c) - 1), pad) \o <<":">> \o IntText(c[Len(c)], pad)

RelativeDurations ==
    {Str(Join(c, pad)) : c \in SeqsUpTo(ComponentValues, MaxParts) \ {<<>>}, pad \in BOOLEAN}
\* components int() reads as negative
SignedDurations ==
    {Str(<<"-", "1">>), Str(<<"-", "1", ":", "0">>), Str(<<"1", ":", "-", "1", "0", ":", "0", "5">>)}
\* strings int() rejects: not a number, an empty component
BadDurations == {Str(<<"x">>), Str(<<"1", ":", ":", "3">>)}
RelativeOthers == {None, Str(<<"1", ":", "0", ":", "0", ":", "1", "0">>)}
RelativeAnchors == {None, DateTime(2024, 3, 1, 0, 0, 5), DateTime(2023, 12, 31, 23, 59, 58)}

NextRelative ==
    \/ \E et \in RelativeAnchors, b \in RelativeDurations \cup SignedDurations \cup BadDurations,
          a \in RelativeOthers :
            calls = 0 /\ QueryRelative(<<"x">>, et, b, a)
    \/ \E et \in RelativeAnchors, b \in RelativeOthers,
          a \in RelativeDurations \cup SignedDurations \cup BadDurations :
            calls = 0 /\ QueryRelative(<<"x">>, et, b, a)

SpecRelative == Init /\ [][NextRelative]_vars

-----------------------------------------------------------------------------
(* json() explored on its own, over every stored value of bounded size.     *)

FieldNames == {"a", "b"}
Values == {"1", "2"}
JsonFields == SeqsUpTo(FieldNames, MaxFields)
JsonRows == SeqsUpTo(SeqsUpTo(Values, MaxFields), MaxRows)
StoredValues ==
    {None, OtherJson, Dict({}, <<>>, <<>>)}
        \cup {Dict({"rows"}, <<>>, r) : r \in JsonRows}
        \cup {Dict({"fields", "rows"}, f, r) : f \in JsonFields, r \in JsonRows}

\* a session whose download assigned v to search_results
InitJson ==
    /\ session_key = Token(1)
    /\ search_id = JobId(1)
    /\ search_results \in StoredValues
    /\ query_start_time = At(0)
    /\ query_end_time = At(0)
    /\ query_cancelled = FALSE
    /\ pc = "idle"
    /\ now = 0
    /\ timeout_date = QueryTimeout
    /\ query = FormatSearch(<<"x">>)
    /\ submitted = FormatSearch(<<"x">>)
    /\ result = "True"
    /\ exit_line = 254
    /\ download_ret = IF RowsUnusable(search_results) THEN "False" ELSE "True"
    /\ trace = <<"login", "submit", "status", "download">>
    /\ responses = [login |-> Http(200, Xml(TRUE, Token(1))),
                     submit |-> Http(201, Xml(TRUE, JobId(1))),
                     status |-> Http(200, "isDone1"),
                     download |-> Http(200, JsonText(search_results))]
    /\ cancelled_at = "never"
    /\ arg = [fn |-> "query", query |-> <<"x">>, time_start |-> None, time_end |-> None]
    /\ results_at_entry = None
    /\ stored = TRUE
    /\ calls = 1
    /\ json_out = NotCalled
    /\ timestamp = NotCalled
    /\ cancelled_on_entry = FALSE

NextJson == Json

SpecJson == InitJson /\ [][NextJson]_vars

-----------------------------------------------------------------------------
(* extract_event_timestamp: lines 45-78.                                   *)

\* a time zone: its name and its offset from UTC in seconds
Zone(name, offset) == [name |-> name, offset |-> offset]
\* ace_hunter.config.LOCAL_TIMEZONE, the zone of the process
LOCAL_TIMEZONE == Zone(<<"l", "o", "c", "a", "l">>, 3600)
Str_UTC == <<"U", "T", "C">>
Str_EST == <<"E", "S", "T">>
\* the zones of the time zone database
KnownZones == {Zone(Str_UTC, 0), Zone(Str_EST, 0 - 18000)}
\* ZoneInfo(key): the zone, or ZoneInfoNotFoundError
ZoneInfo(key) ==
    IF \E z \in KnownZones : z.name = key
    THEN CHOOSE z \in KnownZones : z.name = key
    ELSE [kind |-> "raise", exc |-> "ZoneInfoNotFoundError"]

\* a datetime without tzinfo, and one with a tzinfo of the given offset
Naive(t) == [kind |-> "datetime", t |-> t, aware |-> FALSE, offset |-> 0, tz |-> <<>>]
Aware(t, offset, tz) == [kind |-> "datetime", t |-> t, aware |-> TRUE, offset |-> offset, tz |-> tz]
\* dt.replace(tzinfo=zone)
replace(dt, zone) == Aware(dt.t, zone.offset, zone.name)
\* dt.astimezone(zone) of an aware datetime
astimezone(dt, zone) ==
    Aware(PlusDelta(dt.t, Timedelta(zone.offset - dt.offset)), zone.offset, zone.name)
\* ace_hunter.util.local_time() when the clock reads n
local_time(n) == Aware(NowDateTime(n), LOCAL_TIMEZONE.offset, LOCAL_TIMEZONE.name)

DigitSet == {Digits[d] : d \in 1..10}
\* a text matches a pattern given as the set of characters allowed at each position
Matches(text, pattern) ==
    Len(text) = Len(pattern) /\ \A i \in 1..Len(text) : text[i] \in pattern[i]
\* [0-9]{4}-[0-9]{2}-[0-9]{2} <sep> [0-9]{2}:[0-9]{2}:[0-9]{2}
DateAndTime(sep) ==
    <<DigitSet, DigitSet, DigitSet, DigitSet, {"-"}, DigitSet, DigitSet, {"-"}, DigitSet,
      DigitSet, sep, DigitSet, DigitSet, {":"}, DigitSet, DigitSet, {":"}, DigitSet, DigitSet>>
\* \.[0-9]{3}[-+][0-9]{2}:[0-9]{2}
MillisAndOffset ==
    <<{"."}, DigitSet, DigitSet, DigitSet, {"-", "+"}, DigitSet, DigitSet, {":"}, DigitSet,
      DigitSet>>
\* the legacy pattern of lines 66-69
LegacyPattern == DateAndTime({"T"}) \o MillisAndOffset

\* the six fields a text of the form DateAndTime carries (the groups of the legacy pattern)
Groups(text) ==
    DateTime(DigitsValue(SubSeq(text, 1, 4)), DigitsValue(SubSeq(text, 6, 7)),
             DigitsValue(SubSeq(text, 9, 10)), DigitsValue(SubSeq(text, 12, 13)),
             DigitsValue(SubSeq(text, 15, 16)), DigitsValue(SubSeq(text, 18, 19)))
\* the fields name an instant of the calendar
ValidFields(t) ==
    /\ t.year >= 1
    /\ t.month \in 1..12
    /\ t.day >= 1 /\ t.day <= DaysInMonth(t.year, t.month)
    /\ t.hour < 24 /\ t.minute < 60 /\ t.second < 60
\* the offset in seconds written at the end of a text with MillisAndOffset
OffsetOf(text) ==
    (IF text[24] = "-" THEN 0 - 1 ELSE 1)
        * (DigitsValue(SubSeq(text, 25, 26)) * 3600 + DigitsValue(SubSeq(text, 28, 29)) * 60)

ParserError == [kind |-> "raise", exc |-> "ParserError"]
\* texts dateutil finds no date in
Unparseable == {<<>>, <<"n", "o", "t", " ", "a", " ", "t", "i", "m", "e">>}
\* dateutil.parser.parse(value): the outcomes it can have.  It returns a datetime
\* or raises; for a text of a form not modelled here either may happen
parse(value) ==
    IF value.kind # "str" THEN {[kind |-> "raise", exc |-> "TypeError"]}
    ELSE IF Matches(value.val, DateAndTime({"T", " "}) \o MillisAndOffset)
    THEN IF ValidFields(Groups(value.val)) /\ DigitsValue(SubSeq(value.val, 25, 26)) < 24
                /\ DigitsValue(SubSeq(value.val, 28, 29)) < 60
         THEN {Aware(Groups(value.val), OffsetOf(value.val), <<"t", "z", "o", "f", "f", "s", "e", "t">>)}
         ELSE {ParserError}
    ELSE IF Matches(value.val, DateAndTime({"T", " "}))
    THEN IF ValidFields(Groups(value.val)) THEN {Naive(Groups(value.val))} ELSE {ParserError}
    ELSE IF value.val \in Unparseable THEN {ParserError}
    ELSE {ParserError, Naive(Epoch)}

\* extract_event_timestamp(obj, event, timezone) when parse(event["_time"]) has the
\* outcome parsed and the clock reads n: what is returned or raised, and at which line
extract_event_timestamp(event, timezone, parsed, n) ==
    IF ~event.has_time THEN [ret |-> local_time(n), line |-> 48]
    ELSE LET zone == IF timezone.kind = "str"
                     THEN IF ZoneInfo(timezone.val) \in KnownZones
                          THEN ZoneInfo(timezone.val) ELSE LOCAL_TIMEZONE
                     ELSE LOCAL_TIMEZONE
         IN  IF parsed.kind = "raise" THEN [ret |-> parsed, line |-> 57]
             ELSE IF parsed.kind = "datetime"
             THEN IF ~parsed.aware
                  THEN [ret |-> replace(parsed, zone), line |-> 61]
                  ELSE [ret |-> astimezone(parsed, zone), line |-> 63]
             ELSE IF ~Matches(event.time.val, LegacyPattern)
             THEN [ret |-> local_time(n), line |-> 72]
             ELSE [ret |-> replace(Naive(Groups(event.time.val)), zone), line |-> 75]

\* a call of extract_event_timestamp
ExtractEventTimestamp(event, timezone) ==
    /\ pc = "idle"
    /\ \E parsed \in (IF event.has_time THEN parse(event.time) ELSE {None}) :
            timestamp' = [kind |-> "called", event |-> event, timezone |-> timezone,
                          parsed |-> parsed, clock |-> now,
                          ret |-> extract_event_timestamp(event, timezone, parsed, now).ret,
                          line |-> extract_event_timestamp(event, timezone, parsed, now).line]
    /\ UNCHANGED <<session_key, search_id, search_results, query_start_time, query_end_time,
                   query_cancelled, pc, now, timeout_date, query, submitted, result,
                   exit_line, download_ret, trace, responses, cancelled_at, arg,
                   results_at_entry, stored, calls, json_out, cancelled_on_entry>>

NoTimeField == [has_time |-> FALSE, time |-> None]
TimeField(v) == [has_time |-> TRUE, time |-> v]
EventTexts ==
    Unparseable \cup
    {<<"2", "0", "2", "4", "-", "0", "1", "-", "0", "1", "T", "1", "0", ":", "0", "0", ":", "0",
       "0", ".", "0", "0", "0", "+", "0", "0", ":", "0", "0">>,
     <<"2", "0", "2", "3", "-", "1", "2", "-", "3", "1", "T", "2", "3", ":", "5", "9", ":", "5",
       "8", ".", "1", "2", "3", "-", "0", "5", ":", "0", "0">>,
     <<"2", "0", "2", "4", "-", "1", "3", "-", "0", "1", "T", "1", "0", ":", "0", "0", ":", "0",
       "0", ".", "0", "0", "0", "+", "0", "0", ":", "0", "0">>,
     <<"2", "0", "2", "4", "-", "0", "1", "-", "0", "1", " ", "1", "0", ":", "0", "0", ":", "0",
       "0">>,
     <<"M", "o", "n", "d", "a", "y">>}
Events == {NoTimeField, TimeField(None)} \cup {TimeField(Str(x)) : x \in EventTexts}
EventZones ==
    {None, Str(Str_UTC), Str(Str_EST), Str(<<"M", "a", "r", "s", "/", "O", "l", "y", "m", "p", "u", "s">>)}

InitEvent ==
    /\ session_key = None
    /\ search_id = None
    /\ search_results = None
    /\ query_start_time = None
    /\ query_end_time = None
    /\ query_cancelled = FALSE
    /\ pc = "idle"
    /\ now \in 0..MaxClock
    /\ timeout_date = 0
    /\ query = <<>>
    /\ submitted = <<>>
    /\ result = "None"
    /\ exit_line = 0
    /\ download_ret = "NotCalled"
    /\ trace = <<>>
    /\ responses = NoResponses
    /\ cancelled_at = "never"
    /\ arg = [fn |-> "none", query |-> <<>>, time_start |-> None, time_end |-> None]
    /\ results_at_entry = None
    /\ stored = FALSE
    /\ calls = 0
    /\ json_out = NotCalled
    /\ timestamp = NotCalled
    /\ cancelled_on_entry = FALSE

NextEvent == \E event \in Events, timezone \in EventZones : ExtractEventTimestamp(event, timezone)

SpecEvent == InitEvent /\ [][NextEvent]_vars

-----------------------------------------------------------------------------
(* Properties of the query lifecycle (specification Spec).                  *)

\* the HTTP requests of the current call, in order
Requests == SelectSeq(trace, LAMBDA e : e # "cancel")
LastRequest == IF Requests = <<>> THEN "none" ELSE Requests[Len(Requests)]
Count(req) == Cardinality({i \in 1..Len(trace) : trace[i] = req})
Sent(req) == \E i \in 1..Len(trace) : trace[i] = req
\* the requests of kind req sent after cancel() wrote the flag during this call
AfterCancel(req) ==
    Cardinality({j \in 1..Len(trace) :
                    trace[j] = req /\ \E i \in 1..(j - 1) : trace[i] = "cancel"})
Rank(req) ==
    CASE req = "login" -> 1 [] req = "submit" -> 2 [] req = "status" -> 3
      [] req = "download" -> 4

\* the results request failed: a non-200 status, or a body that is not JSON rows
DownloadFailed(r) ==
    r.kind = "http" /\ (r.status # 200 \/ ~r.body.json \/ RowsUnusable(r.body.value))

\* C1: when the download stage fails (non-200 status, or a body that cannot be
\* parsed as JSON rows), query() returns a negative result.
C1_DownloadFailureIsNegative ==
    (pc = "idle" /\ LastRequest = "download" /\ DownloadFailed(responses.download))
        => result = "False"

\* a status check that is a hard failure: transport error, non-200, or a 200
\* body without a parseable isDone value
StatusHardFailure(r) ==
    r.kind = "error" \/ r.status # 200 \/ r.body \notin {"isDone0", "isDone1"}

\* C2: a status check that gets a non-200 response, a transport error or a 200
\* body without a parseable isDone value aborts polling at once: query() has
\* returned a negative result and nothing follows that status check.
C2_StatusFailureAbortsPolling ==
    (LastRequest = "status" /\ StatusHardFailure(responses.status))
        => (pc = "idle" /\ result = "False")

LoginOk(r) ==
    r.kind = "http" /\ r.status = 200 /\ r.body.wellformed /\ r.body.elem # Absent
SubmitOk(r) ==
    r.kind = "http" /\ r.status = 201 /\ r.body.wellformed /\ r.body.elem # Absent

\* C3: the requests of one query() call are login, submit, status checks,
\* download in that order, with at most one login, submit and download; submit
\* follows a login that returned 200 with a sessionKey, a status check follows a
\* submit that returned 201 with a sid, and download directly follows a status
\* check of the same call that reported isDone=1; a call that returns a positive
\* result without being cancelled made all four kinds of request.
C3_RequestSequence ==
    LET R == Requests
    IN  /\ Count("login") <= 1 /\ Count("submit") <= 1 /\ Count("download") <= 1
        /\ \A i, j \in 1..Len(R) : i < j => Rank(R[i]) <= Rank(R[j])
        /\ R # <<>> => R[1] = "login"
        /\ Sent("submit") => Sent("login") /\ LoginOk(responses.login)
        /\ Sent("status") => Sent("submit") /\ SubmitOk(responses.submit)
        /\ Sent("download") =>
              /\ Len(R) >= 4
              /\ R[Len(R)] = "download"
              /\ R[Len(R) - 1] = "status"
              /\ responses.status = Http(200, "isDone1")
        /\ (pc = "idle" /\ result = "True" /\ ~query_cancelled) => Sent("download")

C3_Witness ==
    /\ pc = "idle"
    /\ result = "True"
    /\ Requests = <<"login", "submit", "status", "status", "download">>

\* C4: a call whose status checks all reported isDone=0 and that was not
\* cancelled returns only by the timeout: the result is negative, the clock is
\* past timeout_date, no download request was issued and search_results is as
\* it was when the call was entered.
C4_TimeoutWithoutDownload ==
    /\ (/\ pc = "idle"
        /\ Sent("status")
        /\ responses.status = Http(200, "isDone0")
        /\ ~Sent("cancel"))
           => /\ exit_line = 245
              /\ result = "False"
              /\ now > timeout_date
    /\ exit_line = 245 =>
           /\ pc = "idle"
           /\ result = "False"
           /\ ~Sent("download")
           /\ search_results = results_at_entry

C4_Witness ==
    /\ exit_line = 245
    /\ Count("status") >= 2
    /\ responses.status = Http(200, "isDone0")
    /\ results_at_entry # None

PollingPcs == {"while", "is_job_completed", "if_timeout", "sleep"}

\* C5 as claimed: once the flag is set while query() is polling, no status
\* check is started and no download request is issued in that call.
C5_NothingAfterCancel ==
    (Sent("cancel") /\ cancelled_at \in PollingPcs)
        => (AfterCancel("status") = 0 /\ AfterCancel("download") = 0)

\* C5: once the flag is set while query() is polling, no download request is
\* issued in that call, and no status check is started except the one whose loop
\* test had already passed when the flag was written.
C5_AtMostOneStatusAfterCancel ==
    (Sent("cancel") /\ cancelled_at \in PollingPcs)
        => /\ AfterCancel("download") = 0
           /\ AfterCancel("status") <= (IF cancelled_at = "is_job_completed" THEN 1 ELSE 0)

C5_Witness ==
    /\ pc = "idle"
    /\ exit_line = 254
    /\ Sent("cancel")
    /\ cancelled_at = "is_job_completed"
    /\ AfterCancel("status") = 1
    /\ responses.status = Http(200, "isDone1")
    /\ ~Sent("download")

AuthFailure(r) ==
    r.kind = "error" \/ r.status # 200 \/ ~r.body.wellformed \/ r.body.elem = Absent
SubmitFailure(r) ==
    r.kind = "error" \/ r.status # 201 \/ ~r.body.wellformed \/ r.body.elem = Absent

\* C6: after a failed authentication (non-200, transport error, no sessionKey
\* element) query() has returned False and login is the only request of the
\* call; after a failed submission (non-201, transport error, no sid element)
\* query() has returned False and login and submit are its only requests.
C6_EarlyFailureStopsTheCall ==
    /\ (Sent("login") /\ AuthFailure(responses.login))
           => (pc = "idle" /\ result = "False" /\ Requests = <<"login">>)
    /\ (Sent("submit") /\ SubmitFailure(responses.submit))
           => (pc = "idle" /\ result = "False" /\ Requests = <<"login", "submit">>)

C6_Witness ==
    /\ pc = "idle"
    /\ result = "False"
    /\ Requests = <<"login", "submit">>
    /\ responses.submit = Http(201, Xml(TRUE, Absent))

\* C7 as claimed: json() returns None on a session with no query run or whose
\* most recent query() failed, and a record sequence only when the most recent
\* query downloaded a payload.
C7_NoneUnlessLastQuerySucceeded ==
    json_out # NotCalled =>
        /\ (calls = 0 \/ result = "False") => json_out = None
        /\ json_out.kind = "list" => download_ret = "True"

\* C7: json() returns None as long as no download on the session has received
\* a 200 response with a JSON body; a query() call that returns False leaves
\* search_results as it was on entry, and json() returns a record sequence
\* only for a value that such a download stored.
C7_NoneUntilPayloadStored ==
    /\ (json_out # NotCalled /\ ~stored) => json_out = None
    /\ (pc = "idle" /\ result = "False") => search_results = results_at_entry
    /\ json_out.kind = "list" => (stored /\ search_results.kind = "dict")

C7_Witness ==
    /\ calls = 2
    /\ result = "False"
    /\ json_out.kind = "list"
    /\ Len(json_out.items) = 1

-----------------------------------------------------------------------------
(* Properties of json() (specification SpecJson).                          *)

\* a payload whose rows all have the length of its field list
WellFormed(sr) ==
    /\ sr.kind = "dict"
    /\ sr.keys = {"fields", "rows"}
    /\ \A i \in 1..Len(sr.rows) : Len(sr.rows[i]) = Len(sr.fields)

\* the last position at which name f occurs in the field list
LastIndex(fields, f) ==
    CHOOSE j \in 1..Len(fields) :
        fields[j] = f /\ \A k \in (j + 1)..Len(fields) : fields[k] # f

\* C8 as claimed: for a payload whose rows have the length of the field list,
\* json() returns one record per row, in row order, and record i maps field j
\* to value j of row i, for every j; the stored payload is not modified.
C8_RecordZipsEveryField ==
    (json_out # NotCalled /\ WellFormed(search_results)) =>
        LET F == search_results.fields
            R == search_results.rows
        IN  /\ json_out.kind = "list"
            /\ Len(json_out.items) = Len(R)
            /\ \A i \in 1..Len(R) : \A j \in 1..Len(F) :
                  json_out.items[i][F[j]] = R[i][j]
            /\ search_results = responses.download.body.value

\* C8: for a payload whose rows have the length of the field list, json()
\* returns one record per row, in row order; the keys of record i are the field
\* names, and record i maps field j to the value of row i at the last position
\* that carries the same field name (position j itself when the field names are
\* distinct); the stored payload is not modified.
C8_RecordZipsFieldsLastWins ==
    (json_out # NotCalled /\ WellFormed(search_results)) =>
        LET F == search_results.fields
            R == search_results.rows
        IN  /\ json_out.kind = "list"
            /\ Len(json_out.items) = Len(R)
            /\ \A i \in 1..Len(R) :
                  /\ DOMAIN json_out.items[i] = {F[j] : j \in 1..Len(F)}
                  /\ \A j \in 1..Len(F) :
                        json_out.items[i][F[j]] = R[i][LastIndex(F, F[j])]
            /\ search_results = responses.download.body.value

C8_Witness ==
    /\ search_results.kind = "dict"
    /\ search_results.keys = {"fields", "rows"}
    /\ search_results.fields = <<"a", "b">>
    /\ search_results.rows = << <<"1", "2">>, <<"2", "1">> >>
    /\ json_out = List(<< [a |-> "1", b |-> "2"], [a |-> "2", b |-> "1"] >>)

-----------------------------------------------------------------------------
(* Properties of the query construction (specification SpecBuild).         *)

\* the first position at which p occurs in s, 0 when it does not
FindSub(s, p) ==
    LET at == {i \in 1..(Len(s) - Len(p) + 1) : SubSeq(s, i, i + Len(p) - 1) = p}
    IN  IF at = {} THEN 0 ELSE CHOOSE i \in at : \A k \in at : i <= k
CountSub(s, p) ==
    Cardinality({i \in 1..(Len(s) - Len(p) + 1) : SubSeq(s, i, i + Len(p) - 1) = p})

\* MM/DD/YYYY:HH:MM:SS of the instants the construction is explored with
Formatted(t) ==
    CASE t = DateTime(2024, 1, 1, 0, 0, 0) ->
          <<"0", "1", "/", "0", "1", "/", "2", "0", "2", "4", ":", "0", "0", ":",
            "0", "0", ":", "0", "0">>
      [] t = DateTime(2024, 1, 1, 0, 0, 10) ->
          <<"0", "1", "/", "0", "1", "/", "2", "0", "2", "4", ":", "0", "0", ":",
            "0", "0", ":", "1", "0">>
      [] t = DateTime(2023, 12, 31, 23, 59, 58) ->
          <<"1", "2", "/", "3", "1", "/", "2", "0", "2", "3", ":", "2", "3", ":",
            "5", "9", ":", "5", "8">>

\* a call of query_with_time / query_with_index_time with both bounds given
TimeCall ==
    /\ arg.fn \in {"query_with_time", "query_with_index_time"}
    /\ arg.time_start # None
    /\ arg.time_end # None
ClausePrefix == IF arg.fn = "query_with_index_time" THEN Str_index ELSE <<>>
LatestClause == <<" ">> \o ClausePrefix \o Str_latest \o Formatted(arg.time_end)
EarliestClause == <<" ">> \o ClausePrefix \o Str_earliest \o Formatted(arg.time_start)

\* C9 as claimed: the built query starts with the search token, holds both
\* clauses, and the latest= clause comes before the earliest= clause.
C9_LatestBeforeEarliest ==
    TimeCall =>
        /\ startswith(query, Str_search)
        /\ FindSub(query, LatestClause) > 0
        /\ FindSub(query, EarliestClause) > 0
        /\ FindSub(query, LatestClause) < FindSub(query, EarliestClause)

\* C9: the built query is the search token, directly followed by the earliest=
\* clause (MM/DD/YYYY:HH:MM:SS of the start), directly followed by the latest=
\* clause (of the end): the earliest= clause comes before the latest= clause.
\* The same with _index_earliest= and _index_latest= for query_with_index_time.
C9_EarliestBeforeLatest ==
    TimeCall =>
        /\ startswith(query, Str_search \o EarliestClause \o LatestClause)
        /\ FindSub(query, EarliestClause) = Len(Str_search) + 1
        /\ FindSub(query, LatestClause) = Len(Str_search) + Len(EarliestClause) + 1

C9_Witness ==
    /\ pc = "authenticate"
    /\ arg.fn = "query_with_time"
    /\ arg.query = Str_search \o <<" ", "x">>
    /\ arg.time_start = DateTime(2024, 1, 1, 0, 0, 0)
    /\ arg.time_end = DateTime(2024, 1, 1, 0, 0, 10)
    /\ query =
        <<"s", "e", "a", "r", "c", "h", " ", "e", "a", "r", "l", "i", "e", "s", "t",
          "=", "0", "1", "/", "0", "1", "/", "2", "0", "2", "4", ":", "0", "0", ":",
          "0", "0", ":", "0", "0", " ", "l", "a", "t", "e", "s", "t", "=", "0", "1",
          "/", "0", "1", "/", "2", "0", "2", "4", ":", "0", "0", ":", "0", "0", ":",
          "1", "0", " ", "x">>

\* the text begins, after optional whitespace, with "search" in any case
Begins(q) ==
    \E n \in 0..Len(q) :
        /\ \A i \in 1..n : q[i] \in Whitespace
        /\ Len(q) >= n + 6
        /\ lower(SubSeq(q, n + 1, n + 6)) = Str_search
\* the text after that leading "search"
AfterToken(q) ==
    LET n == CHOOSE n \in 0..Len(q) :
                 /\ \A i \in 1..n : q[i] \in Whitespace
                 /\ Len(q) >= n + 6
                 /\ lower(SubSeq(q, n + 1, n + 6)) = Str_search
    IN  SubSeq(q, n + 7, Len(q))
TimeClauses == IF arg.fn = "query" THEN <<>> ELSE EarliestClause \o LatestClause

\* C10: the submitted query begins with "search"; against the caller's text
\* it holds one more "search" when that text did not begin with it and no more
\* when it did; a direct query() submits the text itself or "search " and the
\* text; a time-bounded call submits "search", the time clauses, and then the
\* caller's text after its own leading "search" (or a blank and the whole text
\* when it had none); enforcing the prefix once more changes nothing.
C10_ExactlyOneSearchPrefix ==
    submitted # <<>> =>
        LET q == arg.query
        IN  /\ Begins(submitted)
            /\ CountSub(lower(submitted), Str_search) =
                  CountSub(lower(q), Str_search) + (IF Begins(q) THEN 0 ELSE 1)
            /\ arg.fn = "query" =>
                  submitted = (IF Begins(q) THEN q ELSE Str_search \o <<" ">> \o q)
            /\ arg.fn # "query" =>
                  submitted = Str_search \o TimeClauses
                                  \o (IF Begins(q) THEN AfterToken(q) ELSE <<" ">> \o q)
            /\ EnsureSearch(submitted) = submitted

C10_Witness ==
    /\ arg.fn = "query_with_time"
    /\ arg.query = <<"x">>
    /\ arg.time_start = DateTime(2024, 1, 1, 0, 0, 0)
    /\ arg.time_end = DateTime(2024, 1, 1, 0, 0, 10)
    /\ Sent("submit")
    /\ submitted =
        <<"s", "e", "a", "r", "c", "h", " ", "e", "a", "r", "l", "i", "e", "s", "t",
          "=", "0", "1", "/", "0", "1", "/", "2", "0", "2", "4", ":", "0", "0", ":",
          "0", "0", ":", "0", "0", " ", "l", "a", "t", "e", "s", "t", "=", "0", "1",
          "/", "0", "1", "/", "2", "0", "2", "4", ":", "0", "0", ":", "0", "0", ":",
          "1", "0", " ", "x">>

-----------------------------------------------------------------------------
(* Properties of the relative window (specification SpecRelative).         *)

RECURSIVE SumOver(_, _)
\* the sum of f[i] over the set S
SumOver(S, f) ==
    IF S = {} THEN 0
    ELSE LET i == CHOOSE i \in S : TRUE IN f[i] + SumOver(S \ {i}, f)

RECURSIVE Pow10(_)
Pow10(k) == IF k = 0 THEN 1 ELSE 10 * Pow10(k - 1)

\* the number of seconds one unit of the component followed by k colons stands for
Weight(k) == CASE k = 0 -> 1 [] k = 1 -> 60 [] k = 2 -> 3600 [] k = 3 -> 86400

ColonsAfter(s, i) == Cardinality({j \in (i + 1)..Len(s) : s[j] = ":"})
\* the ends of the component the position i lies in
PartFirst(s, i) == CHOOSE a \in 1..i :
    (a = 1 \/ s[a - 1] = ":") /\ \A j \in a..i : s[j] # ":"
PartLast(s, i) == CHOOSE b \in i..Len(s) :
    (b = Len(s) \/ s[b + 1] = ":") /\ \A j \in i..b : s[j] # ":"

\* the seconds a duration string stands for, digit by digit: a digit counts for
\* its decimal place in its component, times the weight of the component
\* counted from the right, negated under a leading minus sign
SecondsMeant(s) ==
    SumOver({i \in 1..Len(s) : IsDigit(s[i])},
            [i \in 1..Len(s) |->
                (IF s[PartFirst(s, i)] = "-" THEN 0 - 1 ELSE 1)
                    * DigitValue(s[i]) * Pow10(PartLast(s, i) - i) * Weight(ColonsAfter(s, i))])

\* one to four colon-separated integers
IsDuration(s) ==
    /\ ColonsAfter(s, 0) < 4
    /\ \A i \in 1..Len(s) : s[i] = ":" \/ IsDigit(s[i]) \/ (s[i] = "-" /\ PartFirst(s, i) = i)
    /\ \A i \in 0..Len(s) : (i = 0 \/ s[i] = ":") =>
            \E j \in (i + 1)..Len(s) : IsDigit(s[j]) /\ \A k \in (i + 1)..j : s[k] # ":"

\* the seconds from the instant t to the instant u
SecondsBetween(t, u) == (Ordinal(u) - Ordinal(t)) * 86400 + SecondOfDay(u) - SecondOfDay(t)

BeforeUsed == IF arg.before = None THEN relative_duration_before ELSE arg.before.val
AfterUsed == IF arg.after = None THEN relative_duration_after ELSE arg.after.val

\* C11: for a duration string of one to four colon-separated integers,
\* create_timedelta yields days*86400 + hours*3600 + minutes*60 + seconds with
\* the components read right to left and the missing leading ones zero, and
\* query_relative searches from the anchor minus the 'before' duration to the
\* anchor plus the 'after' duration, the anchor being the event time given.
C11_RelativeWindow ==
    arg.fn = "query_relative" =>
        /\ IsDuration(BeforeUsed) =>
            /\ create_timedelta(BeforeUsed).kind = "timedelta"
            /\ TotalSeconds(create_timedelta(BeforeUsed)) = SecondsMeant(BeforeUsed)
            /\ SecondsBetween(arg.time_start, arg.anchor) = SecondsMeant(BeforeUsed)
        /\ IsDuration(AfterUsed) =>
            /\ create_timedelta(AfterUsed).kind = "timedelta"
            /\ TotalSeconds(create_timedelta(AfterUsed)) = SecondsMeant(AfterUsed)
        /\ (IsDuration(BeforeUsed) /\ IsDuration(AfterUsed)) =>
            /\ result = "Running"
            /\ SecondsBetween(arg.anchor, arg.time_end) = SecondsMeant(AfterUsed)
            /\ query = InjectTimes(arg.query, arg.time_start, arg.time_end, <<>>)
        /\ arg.event_time # None => arg.anchor = arg.event_time
        /\ result = "ValueError" => ~(IsDuration(BeforeUsed) /\ IsDuration(AfterUsed))

\* a window across the end of a leap February: one day and ten seconds before
\* 2024-03-01 00:00:05, the default five seconds after
C11_Witness ==
    /\ arg.fn = "query_relative"
    /\ arg.before = Str(<<"1", ":", "0", ":", "0", ":", "1", "0">>)
    /\ arg.after = None
    /\ arg.event_time = DateTime(2024, 3, 1, 0, 0, 5)
    /\ arg.time_start = DateTime(2024, 2, 28, 23, 59, 55)
    /\ arg.time_end = DateTime(2024, 3, 1, 0, 0, 10)
    /\ pc = "authenticate"

-----------------------------------------------------------------------------
(* Properties of extract_event_timestamp (specification SpecEvent).        *)

\* C12: extract_event_timestamp never raises: a record without _time yields the
\* current local time, a _time the primary parser cannot handle falls through
\* to the legacy pattern, and a value the legacy pattern does not match yields
\* the current local time.
C12_NeverRaises ==
    timestamp.kind = "called" =>
        /\ timestamp.ret.kind # "raise"
        /\ ~timestamp.event.has_time => timestamp.ret = local_time(timestamp.clock)
        /\ (timestamp.event.has_time /\ timestamp.event.time.kind = "str"
                /\ ~Matches(timestamp.event.time.val, LegacyPattern)
                /\ timestamp.event.time.val \in Unparseable)
            => timestamp.ret = local_time(timestamp.clock)

-----------------------------------------------------------------------------
(* Further properties of the query lifecycle (specification Spec).         *)

\* C13: the payload is stored only when the download succeeds: whenever
\* download_search_results reports anything other than success (a non-200
\* status, a transport error, a body that is not JSON, or JSON without usable
\* 'rows'), search_results keeps the value it had before.
C13_FailedDownloadKeepsPayload ==
    (pc = "idle" /\ download_ret \in {"False", "None"}) => search_results = results_at_entry

\* the configured query timeout in seconds
Timeout == TotalSeconds(create_timedelta(query_timeout))
\* the seconds on the clock since polling began (line 230)
SincePollingBegan == now - query_start_time.t

\* C14 as claimed: the timeout failure is taken only if the configured timeout
\* has elapsed since polling began.
C14_TimeoutSincePollingBegan ==
    (pc = "idle" /\ exit_line = 245) => SincePollingBegan >= Timeout

\* C14: the timeout is measured from the entry of query(): timeout_date is set
\* on entry, before authentication, to the entry time plus the configured
\* timeout, so polling begins at or after timeout_date - Timeout; the timeout
\* failure is taken exactly when the clock read after a status check that
\* reported 'not done' is past timeout_date, however short a time polling has
\* lasted.
C14_TimeoutSinceEntry ==
    /\ []((pc = "idle" /\ exit_line = 245) => now > timeout_date)
    /\ [](pc \in {"while", "is_job_completed", "if_timeout", "sleep"} =>
            /\ query_start_time.t + Timeout >= timeout_date
            /\ query_start_time.t <= now)
    /\ [][(pc = "idle" /\ pc' = "authenticate") => timeout_date' = now + Timeout]_vars
    /\ [][(pc = "if_timeout" /\ pc' # "if_timeout") =>
            IF now > timeout_date
            THEN pc' = "idle" /\ exit_line' = 245 /\ result' = "False"
            ELSE pc' = "sleep"]_vars

\* a call that timed out although polling began at the very instant of the
\* timeout exit: the whole timeout went by during authentication and submission
C14_Witness ==
    /\ pc = "idle"
    /\ exit_line = 245
    /\ SincePollingBegan = 0
    /\ Timeout > 0

\* the positions of query() at which the next step sends a request
RequestPcs == {"authenticate", "execute_query", "is_job_completed", "download_search_results"}

\* C15: with cancel() interleaved arbitrarily with the steps of query(), at
\* most one status check is started after the flag was written; a request about
\* to be sent when the flag is written is still sent; and once the loop test
\* or the test before the download has read the flag as set, no download is
\* issued: a download follows the write only when that test had already passed.
C15_CancelRaces ==
    /\ [](/\ AfterCancel("status") <= 1
          /\ AfterCancel("status") = 1 => cancelled_at = "is_job_completed"
          /\ AfterCancel("download") <= (IF cancelled_at = "download_search_results" THEN 1 ELSE 0))
    /\ [][(query_cancelled' # query_cancelled) =>
            (pc' = pc /\ responses' = responses /\ Requests' = Requests
                /\ search_results' = search_results /\ result' = result)]_vars
    /\ [][(query_cancelled /\ pc \in RequestPcs /\ pc' # pc) =>
            Len(Requests') = Len(Requests) + 1]_vars
    /\ [][(query_cancelled /\ pc \in {"while", "if_download"} /\ pc' # pc) =>
            (pc' \in {"if_download", "idle"} /\ Requests' = Requests)]_vars

\* the flag is written between the loop test and the status request: that one
\* check is made and reports 'not done', the next loop test ends the loop,
\* and the call returns without a download
C15_Witness ==
    /\ pc = "idle"
    /\ exit_line = 254
    /\ cancelled_at = "is_job_completed"
    /\ AfterCancel("status") = 1
    /\ responses.status = Http(200, "isDone0")
    /\ ~Sent("download")

-----------------------------------------------------------------------------
(* Termination of query() (specification SpecLive).                        *)

\* C16 as claimed: the polling loop runs for at most the configured query
\* timeout.
C16_LoopWithinTimeout ==
    pc \in {"while", "is_job_completed", "if_timeout", "sleep"} => SincePollingBegan <= Timeout

\* C16: every query() call eventually returns, provided each request returns
\* and the sleep advances the clock; once a status check has completed with the
\* clock past timeout_date the call starts no further status check: it returns
\* or, if the job is done, goes on to the download.  A sleep is started only
\* when the clock read after a 'not done' check was not past timeout_date.
C16_EventuallyReturns ==
    /\ (pc # "idle") ~> (pc = "idle")
    /\ [][(pc \in {"if_timeout", "if_download", "download_search_results"}
                /\ now > timeout_date)
            => pc' \in {pc, "if_download", "download_search_results", "idle"}]_vars
    /\ [][(pc = "if_timeout" /\ pc' = "sleep") => now <= timeout_date]_vars

\* a call that timed out with the loop having run for longer than the timeout:
\* the last status check was started after the deadline had passed
C16_Witness ==
    /\ pc = "idle"
    /\ exit_line = 245
    /\ query_start_time.t + Timeout = timeout_date
    /\ SincePollingBegan > Timeout
    /\ Count("status") > Timeout + 1

-----------------------------------------------------------------------------
(* Sequential reuse of a session (specification Spec).                     *)

EarlierTokens == {Token(n) : n \in 1..(calls - 1)}
EarlierJobIds == {JobId(n) : n \in 1..(calls - 1)}

\* C17 as claimed: after a query* call returns, session_key and search_id do
\* not hold values obtained by an earlier call, also when the call failed at
\* authentication or submission.
C17_NoStaleTokenOrJobId ==
    pc = "idle" => (session_key \notin EarlierTokens /\ search_id \notin EarlierJobIds)

\* C17: session_key is written only by a login that succeeds and search_id only
\* by a job creation that succeeds, each with the value of that response;
\* nothing clears them.  After a call whose login succeeded session_key is the
\* key of that login, and after a call whose job creation succeeded search_id
\* is the id of that job; a call that fails at authentication leaves both, and
\* a call that fails at submission leaves search_id, as the calls before left
\* them.
C17_ReplacedOnSuccessOnly ==
    /\ []((pc = "idle" /\ Sent("login") /\ LoginOk(responses.login))
            => session_key = responses.login.body.elem)
    /\ []((pc = "idle" /\ Sent("submit") /\ SubmitOk(responses.submit))
            => search_id = responses.submit.body.elem)
    /\ [][session_key' # session_key =>
            (pc = "authenticate" /\ LoginOk(responses'.login)
                /\ session_key' = responses'.login.body.elem)]_vars
    /\ [][search_id' # search_id =>
            (pc = "execute_query" /\ SubmitOk(responses'.submit)
                /\ search_id' = responses'.submit.body.elem)]_vars

\* the second call on a session fails at authentication: the key and the job
\* id of the first call are still there
C17_Witness ==
    /\ pc = "idle"
    /\ calls = 2
    /\ exit_line = 224
    /\ session_key = Token(1)
    /\ search_id = JobId(1)

-----------------------------------------------------------------------------
(* Null time bounds (specification SpecBuild).                             *)

NullBoundCall ==
    /\ arg.fn \in {"query_with_time", "query_with_index_time"}
    /\ arg.time_start = None \/ arg.time_end = None

\* C18: a null start or end bound passed to query_with_time or
\* query_with_index_time is accepted as 'no constraint': the call does not
\* fail, the clause of the null bound is not injected and the clause of the
\* other bound is injected as usual.
C18_NullBoundIsNoConstraint ==
    NullBoundCall =>
        /\ result # "AssertionError"
        /\ pc # "idle"
        /\ arg.time_start = None => CountSub(query, Str_earliest) = 0
        /\ arg.time_end = None => CountSub(query, Str_latest) = 0
        /\ arg.time_start # None => FindSub(query, EarliestClause) > 0
        /\ arg.time_end # None => FindSub(query, LatestClause) > 0

-----------------------------------------------------------------------------
(* The cancellation flag across calls (specification Spec).                *)

\* the flag was already set when the current call was entered
CancelledBeforeEntry == calls > 0 /\ cancelled_on_entry

\* C19: the cancellation flag is sticky: once cancel() has written it, it is
\* set in every later state.  A later query() call sends no status check and
\* no download and leaves search_results as it was; if its login and its job
\* creation succeed, the job is started, and the call returns True.
C19_FlagIsSticky ==
    /\ [][query_cancelled => query_cancelled']_vars
    /\ [](CancelledBeforeEntry =>
            /\ ~Sent("status")
            /\ ~Sent("download")
            /\ search_results = results_at_entry
            /\ (pc = "idle" /\ Sent("submit") /\ SubmitOk(responses.submit)) =>
                    /\ result = "True"
                    /\ exit_line = 254
                    /\ Requests = <<"login", "submit">>
                    /\ search_id = responses.submit.body.elem)

\* the second call on a session cancelled during its first call: the job is
\* created, nothing more is asked, and the payload of the first call stays
C19_Witness ==
    /\ pc = "idle"
    /\ calls = 2
    /\ CancelledBeforeEntry
    /\ cancelled_at # "idle"
    /\ Requests = <<"login", "submit">>
    /\ search_id = JobId(2)
    /\ result = "True"
    /\ search_results = OneRowPayload

-----------------------------------------------------------------------------
(* Completion before timeout (specification Spec).                         *)

\* the last status check was answered 200 without isDone=1: is_job_completed
\* reported 'not done'
ReportedNotDone ==
    /\ LastRequest = "status"
    /\ responses.status.kind = "http"
    /\ responses.status.status = 200
    /\ responses.status.body # "isDone1"

\* C20: completion takes precedence over the timeout.  The timeout is tested
\* only after a status check that reported 'not done'; a call that gets past
\* the job creation and is never cancelled sends at least one status check;
\* and a status check that reports isDone=1 is followed by the download and a
\* True result, also when the clock is past timeout_date.
C20_CompletionBeforeTimeout ==
    /\ [](pc = "if_timeout" => ReportedNotDone)
    /\ []((pc = "idle" /\ exit_line = 245) => ReportedNotDone)
    /\ []((~query_cancelled /\ Sent("submit") /\ SubmitOk(responses.submit)
                /\ pc \notin {"while", "is_job_completed"})
            => Sent("status"))
    /\ []((pc = "idle" /\ ~query_cancelled /\ Sent("status")
                /\ responses.status = Http(200, "isDone1"))
            => (LastRequest = "download" /\ result = "True" /\ exit_line = 254))
    /\ [][(pc = "is_job_completed" /\ pc' # pc /\ responses'.status = Http(200, "isDone1"))
            => (pc' = "if_download" /\ query_end_time'.t = now)]_vars

\* the job is reported done by a status check made after the deadline, and the
\* results are downloaded
C20_Witness ==
    /\ pc = "idle"
    /\ calls = 1
    /\ ~query_cancelled
    /\ Count("status") = 1
    /\ responses.status = Http(200, "isDone1")
    /\ query_end_time.t > timeout_date
    /\ LastRequest = "download"
    /\ search_results = OneRowPayload
    /\ result = "True"

====
